---- MODULE Spec2Model ----
(***************************************************************************)
(* Model of the enhanced PostgreSQL MCP server                             *)
(* (src/enhanced-postgresql-mcp/app): the protocol session handler, the    *)
(* tool registry and executor, the identifier and statement validators     *)
(* and the connection router.                                              *)
(*                                                                         *)
(* Text is modelled as a sequence of one-character strings, so that the    *)
(* validators work on characters as the Python code does.                  *)
(***************************************************************************)
EXTENDS Integers, Sequences, FiniteSets, TLC

VARIABLES
    initialized,    \* MCPProtocolHandler.initialized (one handler per process)
    client_info,    \* MCPProtocolHandler.client_info
    own_init,       \* history: the clients whose own initialize has succeeded
    request,        \* the request handled last
    response,       \* the envelope mcp_endpoint returned for it
    payload,        \* the tool payload serialized into the content block
    calls,          \* the Connection Router calls made for it, in order
    registry_calls, \* the Tool Registry & Executor methods invoked for it
    debug,          \* settings.debug, fixed for the life of the process
    identifier,     \* input of _validate_identifier (validator specification)
    id_result,      \* its outcome: "unset", "accepted" or "rejected"
    tasks,          \* Connection Router calls in flight, one per caller
    pool,           \* DatabaseManager.pool: who holds and who awaits a connection
    connections,    \* the connections asyncpg.connect has opened, open or closed
    tools,          \* PostgreSQLToolsManager.tools, in registration order
    database_url,   \* DatabaseManager.database_url, the default connection URL
    target_db_url,  \* the URL execute_query_on_database derives for a database
    bytes_value,    \* input of _format_bytes (formatter specification)
    formatted       \* the text it returns, empty before

vars == <<initialized, client_info, own_init, request, response, payload,
          calls, registry_calls, debug, identifier, id_result,
          tasks, pool, connections, tools, database_url, target_db_url,
          bytes_value, formatted>>

-----------------------------------------------------------------------------
(* Bounds *)

MaxSuffix == 2

MaxPieces == 3

\* the concurrent callers of the Connection Router, and how many of them
\* the default pool cannot serve at once
MaxCallers == 3

MaxSurplus == 1

-----------------------------------------------------------------------------
(* Characters and text helpers (Python str methods used by the code) *)

LowerChars == <<"a","b","c","d","e","f","g","h","i","j","k","l","m",
                "n","o","p","q","r","s","t","u","v","w","x","y","z">>

UpperChars == <<"A","B","C","D","E","F","G","H","I","J","K","L","M",
                "N","O","P","Q","R","S","T","U","V","W","X","Y","Z">>

DigitChars == {"0","1","2","3","4","5","6","7","8","9"}

Range(f) == {f[i] : i \in DOMAIN f}

\* the character class [a-zA-Z0-9_]
WordChars == Range(LowerChars) \cup Range(UpperChars) \cup DigitChars \cup {"_"}

\* the characters str.strip() removes
Whitespace == {" ", "\n", "\t"}

SetMin(S) == CHOOSE m \in S : \A k \in S : m <= k

SetMax(S) == CHOOSE m \in S : \A k \in S : m >= k

Repeat(c, n) == [i \in 1..n |-> c]

\* str.upper() on one character
UpperChar(c) ==
    IF \E i \in 1..26 : LowerChars[i] = c
    THEN UpperChars[CHOOSE i \in 1..26 : LowerChars[i] = c]
    ELSE c

\* str.upper()
Upper(s) == [i \in 1..Len(s) |-> UpperChar(s[i])]

\* str.strip()
Strip(s) ==
    LET keep == {i \in 1..Len(s) : s[i] \notin Whitespace}
    IN  IF keep = {} THEN <<>> ELSE SubSeq(s, SetMin(keep), SetMax(keep))

\* str.rstrip(chars)
RStrip(s, chars) ==
    LET keep == {i \in 1..Len(s) : s[i] \notin chars}
    IN  IF keep = {} THEN <<>> ELSE SubSeq(s, 1, SetMax(keep))

\* str.startswith(prefix)
StartsWith(s, prefix) ==
    Len(s) >= Len(prefix) /\ SubSeq(s, 1, Len(prefix)) = prefix

\* the Python test "sub in s"
Contains(s, sub) ==
    \E i \in 0..(Len(s) - Len(sub)) : SubSeq(s, i + 1, i + Len(sub)) = sub

-----------------------------------------------------------------------------
(* Identifier Validator *)

MaxIdLen == 63

\* re.match(r'^[a-zA-Z0-9_]+$', identifier): without re.MULTILINE, $ matches
\* at the end of the string and also just before a newline that ends it
RegexMatch(s) ==
    LET body == IF Len(s) > 0 /\ s[Len(s)] = "\n"
                THEN SubSeq(s, 1, Len(s) - 1) ELSE s
    IN  /\ Len(body) >= 1
        /\ \A i \in 1..Len(body) : body[i] \in WordChars

\* TRUE iff _validate_identifier returns without raising
_validate_identifier(s) ==
    /\ Len(s) # 0
    /\ RegexMatch(s)
    /\ ~ (Len(s) > MaxIdLen)

-----------------------------------------------------------------------------
(* Argument values: JSON strings and integers, and Python's None *)

StrV(s) == [t |-> "str", s |-> s, n |-> 0]

IntV(n) == [t |-> "int", s |-> <<>>, n |-> n]

NoneV == [t |-> "none", s |-> <<>>, n |-> 0]

\* Python truthiness, as in "if database:" and "if not identifier:"
Truthy(v) ==
    CASE v.t = "str" -> Len(v.s) > 0
      [] v.t = "int" -> v.n # 0
      [] OTHER -> FALSE

\* _validate_identifier applied to an argument value: "ok", or the exception
\* it raises (re.match raises TypeError on a value that is not a string)
ValidateValue(v) ==
    IF ~ Truthy(v) THEN "ValueError"
    ELSE IF v.t # "str" THEN "TypeError"
    ELSE IF _validate_identifier(v.s) THEN "ok" ELSE "ValueError"

\* the exception raised by the first failing validation of vs, in order
FirstFailure(vs) ==
    LET bad == {i \in 1..Len(vs) : ValidateValue(vs[i]) # "ok"}
    IN  IF bad = {} THEN "ok" ELSE ValidateValue(vs[SetMin(bad)])

\* min(value, cap) as Python evaluates it
MinValue(v, cap) == IF v.n < cap THEN v.n ELSE cap

\* the arguments of a call: a JSON object (dict) or some other JSON value
Dict(m) == [dict |-> TRUE, m |-> m]

NotADict == [dict |-> FALSE, m |-> <<>>]

Has(args, k) == k \in DOMAIN args.m

\* args.get(k, default)
Get(args, k, default) == IF Has(args, k) THEN args.m[k] ELSE default

-----------------------------------------------------------------------------
(* Text constants of the tool handlers *)

S_public == <<"p","u","b","l","i","c">>

S_current == <<"c","u","r","r","e","n","t">>

S_SELECT == <<"S","E","L","E","C","T">>

S_LIMIT == <<"L","I","M","I","T">>

S_preview_head == <<"S","E","L","E","C","T"," ","*"," ","F","R","O","M"," ">>

S_preview_tail == <<" ","L","I","M","I","T"," ","$","1">>

S_count_head == <<"S","E","L","E","C","T"," ","C","O","U","N","T","(","*",")"," ",
                  "a","s"," ","r","o","w","_","c","o","u","n","t"," ","F","R","O","M"," ">>

dangerous_keywords ==
    << <<"D","R","O","P">>, <<"D","E","L","E","T","E">>, <<"U","P","D","A","T","E">>,
       <<"I","N","S","E","R","T">>, <<"A","L","T","E","R">>,
       <<"T","R","U","N","C","A","T","E">>, <<"C","R","E","A","T","E">> >>

DigitSeq == <<"0","1","2","3","4","5","6","7","8","9">>

RECURSIVE NatToStr(_)
NatToStr(n) ==
    IF n < 10 THEN <<DigitSeq[n + 1]>>
    ELSE NatToStr(n \div 10) \o <<DigitSeq[(n % 10) + 1]>>

\* f"{limit}" for an integer
IntToStr(n) == IF n < 0 THEN <<"-">> \o NatToStr(0 - n) ELSE NatToStr(n)

\* query[:n] + "..." if len(query) > n else query
Truncate(s, n) == IF Len(s) > n THEN SubSeq(s, 1, n) \o <<".",".",".">> ELSE s

-----------------------------------------------------------------------------
(* Connection Router: what a handler asks of it.  out is what the database
   does with the query: "rows", "empty" (no row) or "fail" (it raises).
   params holds the numbers bound to the query's placeholders; the text
   parameters of a template are part of the template. *)

\* DatabaseManager.execute_query: the query runs on a connection of the pool
execute_query(template, out) ==
    [via |-> "pool", target |-> <<>>, template |-> template, text |-> <<>>,
     interp |-> {}, params |-> <<>>, out |-> out]

\* DatabaseManager.execute_query_on_database: the query runs on a dedicated
\* connection to database_name
execute_query_on_database(database_name, template, text, interp, out) ==
    [via |-> "ephemeral", target |-> database_name, template |-> template,
     text |-> text, interp |-> interp, params |-> <<>>, out |-> out]

\* DatabaseManager.max_connections, the max_size of the pool, scaled to the
\* number of callers
max_connections == MaxCallers - MaxSurplus

\* the concurrent callers of the router
Callers == 1..MaxCallers

\* waited: the caller found every pool connection checked out, or callers
\* ahead of it, when it reached pool.acquire(); todo: the queries its handler
\* has still to issue after the current one; ran: the queries it has run
IdleTask == [pc |-> "idle", via |-> "none", target |-> <<>>, conn |-> 0,
             out |-> "none", result |-> "none", waited |-> FALSE,
             todo |-> 0, ran |-> 0]

\* the router at rest: no call in flight, every pool connection idle, no
\* connection opened by asyncpg.connect
RouterIdle ==
    /\ tasks = [t \in Callers |-> IdleTask]
    /\ pool = [held |-> {}, waiters |-> <<>>]
    /\ connections = <<>>

-----------------------------------------------------------------------------
(* Tool handlers.  A handler's outcome is the exception it raises ("none"
   when it returns), the payload it returns and the router calls it made. *)

NoPayload == [absent |-> TRUE]

Ret(p, cs) == [exc |-> "none", payload |-> p, calls |-> cs]

Raise(e, cs) == [exc |-> e, payload |-> NoPayload, calls |-> cs]

Now == "now"

\* the exception raised by reading the required arguments keys of args with
\* args[key], in order: "none" when all are present
Subscript(args, keys) ==
    IF ~ args.dict THEN "TypeError"
    ELSE IF \E i \in 1..Len(keys) : ~ Has(args, keys[i]) THEN "KeyError"
    ELSE "none"

_get_databases(outs) ==
    LET c1 == execute_query("databases", outs[1])
    IN  IF outs[1] = "fail" THEN Raise("Exception", <<c1>>)
        ELSE Ret(("databases" :> outs[1]) @@ ("total_count" :> outs[1])
                 @@ ("timestamp" :> Now), <<c1>>)

_get_tables(args, outs) ==
    IF ~ args.dict THEN Raise("AttributeError", <<>>)
    ELSE
    LET database == Get(args, "database", NoneV)
        schema == Get(args, "schema", StrV(S_public))
        failed(cs) == Ret(("error" :> "Failed to get tables")
                          @@ ("database" :> (IF Truthy(database) THEN database
                                             ELSE StrV(S_current)))
                          @@ ("schema" :> schema) @@ ("timestamp" :> Now), cs)
        done(cs) == Ret(("database" :> (IF Truthy(database) THEN database
                                           ELSE StrV(S_current)))
                        @@ ("schema" :> schema)
                        @@ ("tables" :> outs[1]) @@ ("total_count" :> outs[1])
                        @@ ("timestamp" :> Now), cs)
    IN  IF ValidateValue(schema) # "ok" THEN Raise(ValidateValue(schema), <<>>)
        ELSE IF Truthy(database) /\ ValidateValue(database) # "ok"
        THEN Raise(ValidateValue(database), <<>>)
        ELSE IF Truthy(database)
        THEN LET c1 == execute_query_on_database(database.s, "tables", <<>>, {}, outs[1])
             IN  IF outs[1] = "fail" THEN failed(<<c1>>) ELSE done(<<c1>>)
        ELSE LET c1 == execute_query("tables", outs[1])
                 c2 == execute_query("current_database", outs[2])
             IN  IF outs[1] = "fail" THEN failed(<<c1>>)
                 ELSE IF outs[2] = "fail" THEN failed(<<c1, c2>>)
                 ELSE done(<<c1, c2>>)

_describe_table(args, outs) ==
    IF Subscript(args, <<"database", "table">>) # "none"
    THEN Raise(Subscript(args, <<"database", "table">>), <<>>)
    ELSE
    LET database == args.m["database"]
        table == args.m["table"]
        schema == Get(args, "schema", StrV(S_public))
        v == FirstFailure(<<database, table, schema>>)
        c1 == execute_query_on_database(database.s, "columns", <<>>, {}, outs[1])
        c2 == execute_query_on_database(database.s, "constraints", <<>>, {}, outs[2])
    IN  IF v # "ok" THEN Raise(v, <<>>)
        ELSE IF outs[1] = "fail" THEN Raise("Exception", <<c1>>)
        ELSE IF outs[2] = "fail" THEN Raise("Exception", <<c1, c2>>)
        ELSE Ret(("database" :> database) @@ ("schema" :> schema)
                 @@ ("table" :> table) @@ ("columns" :> outs[1])
                 @@ ("constraints" :> outs[2]) @@ ("column_count" :> outs[1])
                 @@ ("constraint_count" :> outs[2]) @@ ("timestamp" :> Now),
                 <<c1, c2>>)

_get_indexes(args, outs) ==
    IF Subscript(args, <<"database", "table">>) # "none"
    THEN Raise(Subscript(args, <<"database", "table">>), <<>>)
    ELSE
    LET database == args.m["database"]
        table == args.m["table"]
        schema == Get(args, "schema", StrV(S_public))
        v == FirstFailure(<<database, table, schema>>)
        c1 == execute_query_on_database(database.s, "indexes", <<>>, {}, outs[1])
    IN  IF v # "ok" THEN Raise(v, <<>>)
        ELSE IF outs[1] = "fail" THEN Raise("Exception", <<c1>>)
        ELSE Ret(("database" :> database) @@ ("schema" :> schema)
                 @@ ("table" :> table) @@ ("indexes" :> outs[1])
                 @@ ("index_count" :> outs[1]) @@ ("timestamp" :> Now), <<c1>>)

_get_table_stats(args, outs) ==
    IF Subscript(args, <<"database", "table">>) # "none"
    THEN Raise(Subscript(args, <<"database", "table">>), <<>>)
    ELSE
    LET database == args.m["database"]
        table == args.m["table"]
        schema == Get(args, "schema", StrV(S_public))
        v == FirstFailure(<<database, table, schema>>)
        c1 == execute_query_on_database(database.s, "table_stats", <<>>, {}, outs[1])
    IN  IF v # "ok" THEN Raise(v, <<>>)
        ELSE IF outs[1] = "fail" THEN Raise("Exception", <<c1>>)
        ELSE IF outs[1] = "empty"
        THEN Ret(("error" :> "not found or no statistics available")
                 @@ ("database" :> database) @@ ("schema" :> schema)
                 @@ ("table" :> table), <<c1>>)
        ELSE Ret(("database" :> database) @@ ("statistics" :> outs[1])
                 @@ ("timestamp" :> Now), <<c1>>)

_get_database_size(args, outs) ==
    IF ~ args.dict THEN Raise("AttributeError", <<>>)
    ELSE
    LET specific_db == Get(args, "database", NoneV)
        c1 == execute_query(IF Truthy(specific_db) THEN "database_size_one"
                            ELSE "database_size_all", outs[1])
    IN  IF Truthy(specific_db) /\ ValidateValue(specific_db) # "ok"
        THEN Raise(ValidateValue(specific_db), <<>>)
        ELSE IF outs[1] = "fail" THEN Raise("Exception", <<c1>>)
        ELSE Ret(("databases" :> outs[1]) @@ ("total_databases" :> outs[1])
                 @@ ("total_size_pretty" :> outs[1])
                 @@ ("total_size_bytes" :> outs[1]) @@ ("timestamp" :> Now), <<c1>>)

PreviewDefaultLimit == 5

PreviewMaxLimit == 10

_preview_table_data(args, outs) ==
    IF Subscript(args, <<"database", "table">>) # "none"
    THEN Raise(Subscript(args, <<"database", "table">>), <<>>)
    ELSE
    LET database == args.m["database"]
        table == args.m["table"]
        schema == Get(args, "schema", StrV(S_public))
        limitArg == Get(args, "limit", IntV(PreviewDefaultLimit))
        limit == MinValue(limitArg, PreviewMaxLimit)
        v == FirstFailure(<<database, table, schema>>)
        query == S_preview_head \o schema.s \o <<".">> \o table.s \o S_preview_tail
        c1 == [execute_query_on_database(database.s, "preview", query,
                                         {schema.s, table.s}, outs[1])
                  EXCEPT !.params = <<limit>>]
    IN  IF limitArg.t # "int" THEN Raise("TypeError", <<>>)
        ELSE IF v # "ok" THEN Raise(v, <<>>)
        ELSE IF outs[1] = "fail"
        THEN Ret(("error" :> "Failed to preview table data")
                 @@ ("database" :> database) @@ ("schema" :> schema)
                 @@ ("table" :> table), <<c1>>)
        ELSE Ret(("database" :> database) @@ ("schema" :> schema)
                 @@ ("table" :> table) @@ ("rows_returned" :> outs[1])
                 @@ ("limit_applied" :> limit) @@ ("data" :> outs[1])
                 @@ ("timestamp" :> Now), <<c1>>)

_count_table_rows(args, outs) ==
    IF Subscript(args, <<"database", "table">>) # "none"
    THEN Raise(Subscript(args, <<"database", "table">>), <<>>)
    ELSE
    LET database == args.m["database"]
        table == args.m["table"]
        schema == Get(args, "schema", StrV(S_public))
        v == FirstFailure(<<database, table, schema>>)
        query == S_count_head \o schema.s \o <<".">> \o table.s
        c1 == execute_query_on_database(database.s, "count", query,
                                        {schema.s, table.s}, outs[1])
    IN  IF v # "ok" THEN Raise(v, <<>>)
        ELSE IF outs[1] = "fail"
        THEN Ret(("error" :> "Failed to count table rows")
                 @@ ("database" :> database) @@ ("schema" :> schema)
                 @@ ("table" :> table), <<c1>>)
        ELSE Ret(("database" :> database) @@ ("schema" :> schema)
                 @@ ("table" :> table) @@ ("row_count" :> outs[1])
                 @@ ("timestamp" :> Now), <<c1>>)

_get_active_connections(args, outs) ==
    IF ~ args.dict THEN Raise("AttributeError", <<>>)
    ELSE
    LET specific_db == Get(args, "database", NoneV)
        c1 == execute_query(IF Truthy(specific_db) THEN "active_connections_one"
                            ELSE "active_connections_all", outs[1])
    IN  IF Truthy(specific_db) /\ ValidateValue(specific_db) # "ok"
        THEN Raise(ValidateValue(specific_db), <<>>)
        ELSE IF outs[1] = "fail" THEN Raise("Exception", <<c1>>)
        ELSE Ret(("active_connections" :> outs[1]) @@ ("connection_count" :> outs[1])
                 @@ ("filtered_by_database" :> specific_db)
                 @@ ("timestamp" :> Now), <<c1>>)

_check_database_health(outs) ==
    LET c1 == execute_query("health_version", outs[1])
        c2 == execute_query("health_stats", outs[2])
        unhealthy(msg, cs) == Ret(("status" :> "unhealthy") @@ ("error" :> msg)
                                  @@ ("timestamp" :> Now), cs)
    IN  IF outs[1] = "fail" THEN unhealthy("Exception", <<c1>>)
        ELSE IF outs[1] = "empty" THEN unhealthy("No response from database", <<c1>>)
        ELSE IF outs[2] = "fail" THEN unhealthy("Exception", <<c1, c2>>)
        ELSE Ret(("status" :> "healthy") @@ ("database_version" :> "version")
                 @@ ("current_time" :> "current_timestamp")
                 @@ ("is_standby" :> "pg_is_in_recovery")
                 @@ ("connections" :> outs[2]) @@ ("timestamp" :> Now), <<c1, c2>>)

-----------------------------------------------------------------------------
(* Statement Validator and LIMIT injection of execute_sql_query *)

SqlDefaultLimit == 50

SqlMaxLimit == 100

ErrorQueryChars == 100

FailedQueryChars == 200

\* query_upper = query.upper().strip()
QueryUpper(query) == Strip(Upper(query))

\* mutant of IsSelect: SELECT is looked for anywhere in the statement
IsSelect_anywhere(query) == Contains(QueryUpper(query), S_SELECT)

\* query_upper.startswith('SELECT')
IsSelect(query) == StartsWith(QueryUpper(query), S_SELECT)

\* mutant of DangerousKeyword: the scan is case-sensitive
DangerousKeyword_case_sensitive(query) ==
    LET found == {k \in 1..Len(dangerous_keywords) :
                     Contains(Strip(query), dangerous_keywords[k])}
    IN  IF found = {} THEN 0 ELSE SetMin(found)

\* the first keyword of dangerous_keywords found in query_upper, 0 when none
DangerousKeyword(query) ==
    LET found == {k \in 1..Len(dangerous_keywords) :
                     Contains(QueryUpper(query), dangerous_keywords[k])}
    IN  IF found = {} THEN 0 ELSE SetMin(found)

\* mutant of InjectLimit: the clause is appended to every statement
InjectLimit_always(query, limit) ==
    RStrip(query, {";"}) \o <<" ">> \o S_LIMIT \o <<" ">> \o IntToStr(limit)

\* the statement sent to the database for an accepted query
InjectLimit(query, limit) ==
    IF ~ Contains(QueryUpper(query), S_LIMIT)
    THEN RStrip(query, {";"}) \o <<" ">> \o S_LIMIT \o <<" ">> \o IntToStr(limit)
    ELSE query

_execute_sql_query(args, outs) ==
    IF Subscript(args, <<"database", "query">>) # "none"
    THEN Raise(Subscript(args, <<"database", "query">>), <<>>)
    ELSE
    LET database == args.m["database"]
        queryArg == args.m["query"]
        query == Strip(queryArg.s)
        limitArg == Get(args, "limit", IntV(SqlDefaultLimit))
        limit == MinValue(limitArg, SqlMaxLimit)
        sent == InjectLimit(query, limit)
        c1 == execute_query_on_database(database.s, "custom", sent, {}, outs[1])
        rejected(msg) == Ret(("error" :> msg) @@ ("database" :> database)
                             @@ ("query" :> Truncate(query, ErrorQueryChars)), <<>>)
    IN  IF queryArg.t # "str" THEN Raise("AttributeError", <<>>)
        ELSE IF limitArg.t # "int" THEN Raise("TypeError", <<>>)
        ELSE IF ValidateValue(database) # "ok" THEN Raise(ValidateValue(database), <<>>)
        ELSE IF ~ IsSelect(query)
        THEN rejected("Only SELECT queries are allowed for safety reasons")
        ELSE IF DangerousKeyword(query) # 0
        THEN rejected("Query contains potentially dangerous keyword")
        ELSE IF outs[1] = "fail"
        THEN Ret(("error" :> "Query execution failed") @@ ("database" :> database)
                 @@ ("query" :> Truncate(sent, FailedQueryChars))
                 @@ ("timestamp" :> Now), <<c1>>)
        ELSE Ret(("database" :> database) @@ ("query" :> sent)
                 @@ ("results" :> outs[1]) @@ ("row_count" :> outs[1])
                 @@ ("execution_time_seconds" :> "elapsed")
                 @@ ("timestamp" :> Now), <<c1>>)

-----------------------------------------------------------------------------
(* Tool Registry & Executor *)

\* the keys of PostgreSQLToolsManager.tools, in registration order
ToolNames ==
    <<"get_databases", "get_tables", "describe_table", "get_indexes",
      "get_table_stats", "get_database_size", "preview_table_data",
      "count_table_rows", "get_active_connections", "check_database_health",
      "execute_sql_query">>

\* a name parameter that is a JSON array or object: the membership test
\* "tool_name not in self.tools" raises TypeError (unhashable type)
UnhashableName == "[]"

\* inputSchema of the registered tools: declared properties with their types,
\* and the required ones (additionalProperties is False for every tool)
Identified == [database |-> "string", table |-> "string", schema |-> "string"]

inputSchema ==
    [get_databases |-> [properties |-> <<>>, required |-> {}],
     get_tables |-> [properties |-> [database |-> "string", schema |-> "string"],
                     required |-> {}],
     describe_table |-> [properties |-> Identified, required |-> {"database", "table"}],
     get_indexes |-> [properties |-> Identified, required |-> {"database", "table"}],
     get_table_stats |-> [properties |-> Identified, required |-> {"database", "table"}],
     get_database_size |-> [properties |-> [database |-> "string"], required |-> {}],
     preview_table_data |-> [properties |-> Identified @@ [limit |-> "integer"],
                             required |-> {"database", "table"}],
     count_table_rows |-> [properties |-> Identified, required |-> {"database", "table"}],
     get_active_connections |-> [properties |-> [database |-> "string"], required |-> {}],
     check_database_health |-> [properties |-> <<>>, required |-> {}],
     execute_sql_query |-> [properties |-> [database |-> "string", query |-> "string",
                                            limit |-> "integer"],
                            required |-> {"database", "query"}]]

\* _register_tools: the registry __init__ builds, one definition per tool
_register_tools ==
    [i \in 1..Len(ToolNames) |->
        [name |-> ToolNames[i], inputSchema |-> inputSchema[ToolNames[i]]]]

\* the registry as constructed
RegistryBuilt == tools = _register_tools

\* get_all_tools: list(self.tools.values())
get_all_tools == tools

\* mutant of registry_after: listing the tools consumes the registry
registry_after_consumed(reg, method) == IF method = "tools/list" THEN <<>> ELSE reg

\* self.tools once a request has been handled: no handler assigns it
registry_after(reg, method) == reg

default_database_url ==
    <<"p","g",":","/","/","u",":","w","@","h",":","5","/","d","b">>

\* the index of the last occurrence of sep in s, 0 if there is none
LastIndexOf(s, sep) ==
    IF \E i \in 1..Len(s) : s[i] = sep
    THEN CHOOSE i \in 1..Len(s) : s[i] = sep /\ \A j \in (i + 1)..Len(s) : s[j] # sep
    ELSE 0

\* s.rsplit(sep, 1)[0]: s up to its last sep, all of s if it has none
RSplitHead(s, sep) ==
    IF LastIndexOf(s, sep) = 0 THEN s ELSE SubSeq(s, 1, LastIndexOf(s, sep) - 1)

\* execute_query_on_database: the URL of the dedicated connection
derive_target_db_url(url, database_name) ==
    RSplitHead(url, "/") \o <<"/">> \o database_name

NoBytes == [m |-> 0, e |-> 0]

\* no function under specification has been applied
FunctionsIdle ==
    /\ database_url = default_database_url
    /\ target_db_url = <<>>
    /\ bytes_value = NoBytes
    /\ formatted = <<>>

\* the handler execute_tool routes tool_name to
Dispatch(tool_name, args, outs) ==
    CASE tool_name = "get_databases" -> _get_databases(outs)
      [] tool_name = "get_tables" -> _get_tables(args, outs)
      [] tool_name = "describe_table" -> _describe_table(args, outs)
      [] tool_name = "get_indexes" -> _get_indexes(args, outs)
      [] tool_name = "get_table_stats" -> _get_table_stats(args, outs)
      [] tool_name = "get_database_size" -> _get_database_size(args, outs)
      [] tool_name = "preview_table_data" -> _preview_table_data(args, outs)
      [] tool_name = "count_table_rows" -> _count_table_rows(args, outs)
      [] tool_name = "get_active_connections" -> _get_active_connections(args, outs)
      [] tool_name = "check_database_health" -> _check_database_health(outs)
      [] tool_name = "execute_sql_query" -> _execute_sql_query(args, outs)
      [] OTHER -> Raise("ValueError", <<>>)

\* the payload of execute_tool's catch-all
error_result(e, tool_name) ==
    ("error" :> e) @@ ("tool" :> tool_name) @@ ("timestamp" :> Now)

\* mutant of CatchAll: only database errors are caught, as if the handler
\* were wrapped in a narrower except clause
CatchAll_database_errors_only(r, tool_name) ==
    IF r.exc \in {"none", "ValueError", "KeyError", "TypeError", "AttributeError"} THEN r
    ELSE Ret(error_result(r.exc, tool_name), r.calls)

\* the try/except of execute_tool around the handler outcome r
CatchAll(r, tool_name) ==
    IF r.exc = "none" THEN r
    ELSE Ret(error_result(r.exc, tool_name), r.calls)

\* mutant of execute_tool: the lookup of the name is inside the try block
execute_tool_lookup_caught(tool_name, args, outs) ==
    IF tool_name = UnhashableName THEN Ret(error_result("TypeError", tool_name), <<>>)
    ELSE IF tool_name \notin {tools[i].name : i \in DOMAIN tools}
    THEN Ret(error_result("ValueError", tool_name), <<>>)
    ELSE CatchAll(Dispatch(tool_name, args, outs), tool_name)

\* execute_tool: raises for a name that is not registered, otherwise returns
\* the handler's payload or, when the handler raised, the catch-all payload
execute_tool(tool_name, args, outs) ==
    IF tool_name = UnhashableName THEN Raise("TypeError", <<>>)
    ELSE IF tool_name \notin {tools[i].name : i \in DOMAIN tools}
    THEN Raise("ValueError", <<>>)
    ELSE CatchAll(Dispatch(tool_name, args, outs), tool_name)

-----------------------------------------------------------------------------
(* Protocol Session Handler.  A handler's outcome: the exception raised
   ("none" when it returns) and its message, the result, the session state
   it leaves, and the registry methods and router calls it caused. *)

protocol_version == "2024-11-05"

server_info == [name |-> "enhanced-postgresql-mcp", version |-> "2.0.0"]

SessionNotInitialized == "Session not initialized. Call 'initialize' first."

MissingProtocolVersion == "Missing required parameter: protocolVersion"

MissingName == "Missing required parameter: name"

UnknownTool == "Unknown tool"

UnknownMethod == "Unknown method"

NoResult == [none |-> TRUE]

\* json.dumps(result, indent=2, default=str): the text of the content block
json_dumps(p) == [json |-> p]

Returned(result, init, info, p, cs, reg) ==
    [exc |-> "none", message |-> "", result |-> result, initialized |-> init,
     client_info |-> info, payload |-> p, calls |-> cs, registry |-> reg]

Raised(e, msg, init, info, reg) ==
    [exc |-> e, message |-> msg, result |-> NoResult, initialized |-> init,
     client_info |-> info, payload |-> NoPayload, calls |-> <<>>, registry |-> reg]

\* mutant of _handle_initialize: clientInfo is recorded by the first
\* initialize only
_handle_initialize_once(params, init, info) ==
    IF "protocolVersion" \notin DOMAIN params
    THEN Raised("ValueError", MissingProtocolVersion, init, info, <<>>)
    ELSE Returned([protocolVersion |-> protocol_version, serverInfo |-> server_info,
                   capabilities |-> {"tools", "resources", "prompts", "logging"}],
                  TRUE,
                  IF init THEN info
                  ELSE IF "clientInfo" \in DOMAIN params THEN params["clientInfo"]
                  ELSE "{}",
                  NoPayload, <<>>, <<>>)

\* mutant of _handle_initialize: clientInfo is stored before protocolVersion is
\* checked
_handle_initialize_store_first(params, init, info) ==
    IF "protocolVersion" \notin DOMAIN params
    THEN Raised("ValueError", MissingProtocolVersion, init,
                IF "clientInfo" \in DOMAIN params THEN params["clientInfo"] ELSE "{}",
                <<>>)
    ELSE Returned([protocolVersion |-> protocol_version, serverInfo |-> server_info,
                   capabilities |-> {"tools", "resources", "prompts", "logging"}],
                  TRUE,
                  IF "clientInfo" \in DOMAIN params THEN params["clientInfo"] ELSE "{}",
                  NoPayload, <<>>, <<>>)

_handle_initialize(params, init, info) ==
    IF "protocolVersion" \notin DOMAIN params
    THEN Raised("ValueError", MissingProtocolVersion, init, info, <<>>)
    ELSE Returned([protocolVersion |-> protocol_version, serverInfo |-> server_info,
                   capabilities |-> {"tools", "resources", "prompts", "logging"}],
                  TRUE,
                  IF "clientInfo" \in DOMAIN params THEN params["clientInfo"] ELSE "{}",
                  NoPayload, <<>>, <<>>)

_handle_tools_list(params, init, info) ==
    IF ~ init
    THEN Raised("ValueError", SessionNotInitialized, init, info, <<>>)
    ELSE Returned([tools |-> get_all_tools], init, info, NoPayload, <<>>,
                  <<"get_all_tools">>)

\* the rest of _handle_tools_call once execute_tool has ended with r
ToolsCallResult(r, init, info) ==
    IF r.exc = "ValueError"
    THEN Raised("ValueError", UnknownTool, init, info, <<"execute_tool">>)
    ELSE IF r.exc # "none"
    THEN Raised(r.exc, "unhashable type", init, info, <<"execute_tool">>)
    ELSE Returned([content |-> <<[type |-> "text", text |-> json_dumps(r.payload)]>>],
                  init, info, r.payload, r.calls, <<"execute_tool">>)

\* mutant of _handle_tools_call: the name is checked before the session
_handle_tools_call_name_first(params, outs, init, info) ==
    IF "name" \notin DOMAIN params
    THEN Raised("ValueError", MissingName, init, info, <<>>)
    ELSE IF ~ init
    THEN Raised("ValueError", SessionNotInitialized, init, info, <<>>)
    ELSE ToolsCallResult(
             execute_tool(params["name"],
                          IF "arguments" \in DOMAIN params
                          THEN params["arguments"] ELSE Dict(<<>>),
                          outs),
             init, info)

_handle_tools_call(params, outs, init, info) ==
    IF ~ init
    THEN Raised("ValueError", SessionNotInitialized, init, info, <<>>)
    ELSE IF "name" \notin DOMAIN params
    THEN Raised("ValueError", MissingName, init, info, <<>>)
    ELSE ToolsCallResult(
             execute_tool(params["name"],
                          IF "arguments" \in DOMAIN params
                          THEN params["arguments"] ELSE Dict(<<>>),
                          outs),
             init, info)

_handle_ping(init, info) ==
    Returned([status |-> "pong", timestamp |-> Now, server |-> server_info.name],
             init, info, NoPayload, <<>>, <<>>)

\* mutant of _handle_empty: the initialized notification marks the session
\* initialized
_handle_empty_initializes(init, info) ==
    Returned([empty |-> TRUE], TRUE, info, NoPayload, <<>>, <<>>)

_handle_empty(init, info) ==
    Returned([empty |-> TRUE], init, info, NoPayload, <<>>, <<>>)

_handle_prompts_list(init, info) ==
    Returned([prompts |-> <<>>], init, info, NoPayload, <<>>, <<>>)

\* mutant of handle_request: the method name is matched without regard to case
handle_request_any_case(method, params, outs, init, info) ==
    CASE method \in {"initialize", "Initialize"} -> _handle_initialize(params, init, info)
      [] method = "initialized" -> _handle_empty(init, info)
      [] method = "tools/list" -> _handle_tools_list(params, init, info)
      [] method = "tools/call" -> _handle_tools_call(params, outs, init, info)
      [] method = "ping" -> _handle_ping(init, info)
      [] method = "logging/setLevel" -> _handle_empty(init, info)
      [] method = "notifications/initialized" -> _handle_empty(init, info)
      [] method = "prompts/list" -> _handle_prompts_list(init, info)
      [] OTHER -> Raised("ValueError", UnknownMethod, init, info, <<>>)

handle_request(method, params, outs, init, info) ==
    CASE method = "initialize" -> _handle_initialize(params, init, info)
      [] method = "initialized" -> _handle_empty(init, info)
      [] method = "tools/list" -> _handle_tools_list(params, init, info)
      [] method = "tools/call" -> _handle_tools_call(params, outs, init, info)
      [] method = "ping" -> _handle_ping(init, info)
      [] method = "logging/setLevel" -> _handle_empty(init, info)
      [] method = "notifications/initialized" -> _handle_empty(init, info)
      [] method = "prompts/list" -> _handle_prompts_list(init, info)
      [] OTHER -> Raised("ValueError", UnknownMethod, init, info, <<>>)

InvalidParams == 0 - 32602

InternalError == 0 - 32603

\* mutant of Envelope: the details of an internal error are never suppressed
Envelope_details_always(r, dbg) ==
    IF r.exc = "none" THEN [kind |-> "success", result |-> r.result]
    ELSE IF r.exc = "ValueError"
    THEN [kind |-> "error", code |-> InvalidParams, message |-> "Invalid params",
          details |-> r.message]
    ELSE [kind |-> "error", code |-> InternalError, message |-> "Internal error",
          details |-> r.message]

\* the envelope mcp_endpoint returns for a handler outcome
Envelope(r, dbg) ==
    IF r.exc = "none" THEN [kind |-> "success", result |-> r.result]
    ELSE IF r.exc = "ValueError"
    THEN [kind |-> "error", code |-> InvalidParams, message |-> "Invalid params",
          details |-> r.message]
    ELSE [kind |-> "error", code |-> InternalError, message |-> "Internal error",
          details |-> IF dbg THEN r.message ELSE "Internal server error"]

\* mcp_endpoint: one request of client c handled whole by the process-wide
\* mcp_handler
mcp_endpoint(c, method, params, outs) ==
    \E r \in {handle_request(method, params, outs, initialized, client_info)} :
        /\ request' = [client |-> c, method |-> method, params |-> params]
        /\ response' = Envelope(r, debug)
        /\ initialized' = r.initialized
        /\ client_info' = r.client_info
        /\ own_init' = IF method = "initialize" /\ r.exc = "none"
                       THEN own_init \cup {c} ELSE own_init
        /\ payload' = r.payload
        /\ calls' = r.calls
        /\ registry_calls' = r.registry
        /\ tools' = registry_after(tools, method)

-----------------------------------------------------------------------------
(* Inputs *)

Clients == {"A", "B"}

Outcomes == {"rows", "empty", "fail"}

\* a handler runs at most two queries
Outs == [1..2 -> Outcomes]

NoOuts == <<"rows", "rows">>

\* all mappings from a subset of keys to values, value[k] the values of key k
RECURSIVE Mappings(_, _)
Mappings(keys, value) ==
    IF keys = {} THEN {<<>>}
    ELSE LET k == CHOOSE x \in keys : TRUE
         IN  UNION {{m, (k :> v) @@ m} : v \in value[k], m \in Mappings(keys \ {k}, value)}

NoRequest == [client |-> "none", method |-> "none"]

NoResponse == [kind |-> "none"]

IdleInit ==
    /\ request = NoRequest
    /\ response = NoResponse
    /\ payload = NoPayload
    /\ calls = <<>>
    /\ registry_calls = <<>>
    /\ identifier = <<>>
    /\ id_result = "unset"
    /\ RouterIdle
    /\ RegistryBuilt
    /\ FunctionsIdle

-----------------------------------------------------------------------------
(* Specification of the session: two clients send requests in any order to
   the one process *)

\* the initialize parameters client c sends
InitializeParams ==
    Mappings({"protocolVersion", "clientInfo"},
             [protocolVersion |-> {protocol_version, "2023-01-01"},
              clientInfo |-> {"info1", "info2"}])

db == <<"d","b">>

select_1 == <<"s","e","l","e","c","t"," ","1">>

drop_table == <<"D","R","O","P"," ","T","A","B","L","E"," ","t">>

\* the tools/call parameters the clients of the session specification send
SessionCalls ==
    { <<>>,
      [name |-> "no_such_tool"],
      [name |-> UnhashableName],
      [name |-> "get_databases"],
      [name |-> "describe_table", arguments |-> Dict(<<>>)],
      [name |-> "count_table_rows",
       arguments |-> Dict([database |-> StrV(db), table |-> StrV(<<"t",";">>)])],
      [name |-> "execute_sql_query",
       arguments |-> Dict([database |-> StrV(db), query |-> StrV(select_1)])],
      [name |-> "execute_sql_query",
       arguments |-> Dict([database |-> StrV(db), query |-> StrV(drop_table)])],
      [arguments |-> Dict([database |-> StrV(db), query |-> StrV(select_1)])] }

SessionOuts == {<<"rows", "rows">>, <<"fail", "fail">>}

Init ==
    /\ initialized = FALSE
    /\ client_info = "None"
    /\ own_init = {}
    /\ debug \in BOOLEAN
    /\ IdleInit

Initialize == \E c \in Clients, p \in InitializeParams :
    /\ mcp_endpoint(c, "initialize", p, NoOuts)
    /\ UNCHANGED <<debug, identifier, id_result, tasks, pool, connections,
                 database_url, target_db_url, bytes_value, formatted>>

ToolsList == \E c \in Clients :
    /\ mcp_endpoint(c, "tools/list", <<>>, NoOuts)
    /\ UNCHANGED <<debug, identifier, id_result, tasks, pool, connections,
                 database_url, target_db_url, bytes_value, formatted>>

ToolsCall == \E c \in Clients, p \in SessionCalls, outs \in SessionOuts :
    /\ mcp_endpoint(c, "tools/call", p, outs)
    /\ UNCHANGED <<debug, identifier, id_result, tasks, pool, connections,
                 database_url, target_db_url, bytes_value, formatted>>

Notification == \E c \in Clients, m \in {"initialized", "notifications/initialized"} :
    /\ mcp_endpoint(c, m, <<>>, NoOuts)
    /\ UNCHANGED <<debug, identifier, id_result, tasks, pool, connections,
                 database_url, target_db_url, bytes_value, formatted>>

Ping == \E c \in Clients :
    /\ mcp_endpoint(c, "ping", <<>>, NoOuts)
    /\ UNCHANGED <<debug, identifier, id_result, tasks, pool, connections,
                 database_url, target_db_url, bytes_value, formatted>>

LoggingSetLevel == \E c \in Clients :
    /\ mcp_endpoint(c, "logging/setLevel", [level |-> "debug"], NoOuts)
    /\ UNCHANGED <<debug, identifier, id_result, tasks, pool, connections,
                 database_url, target_db_url, bytes_value, formatted>>

PromptsList == \E c \in Clients :
    /\ mcp_endpoint(c, "prompts/list", <<>>, NoOuts)
    /\ UNCHANGED <<debug, identifier, id_result, tasks, pool, connections,
                 database_url, target_db_url, bytes_value, formatted>>

OtherMethod == \E c \in Clients, m \in {"resources/list", "Initialize"} :
    /\ mcp_endpoint(c, m, <<>>, NoOuts)
    /\ UNCHANGED <<debug, identifier, id_result, tasks, pool, connections,
                 database_url, target_db_url, bytes_value, formatted>>

Next ==
    \/ Initialize
    \/ ToolsList
    \/ ToolsCall
    \/ Notification
    \/ Ping
    \/ LoggingSetLevel
    \/ PromptsList
    \/ OtherMethod

Spec == Init /\ [][Next]_vars

\* C1: a tools/list or tools/call request handled while initialized is false
\* fails with the session-not-initialized error, whatever the name and the
\* arguments (also without a name); the registry is not invoked and no router
\* call is made.
C1_SessionGate ==
    [][(~ initialized /\ request'.method \in {"tools/list", "tools/call"}) =>
          /\ response'.kind = "error"
          /\ response'.details = SessionNotInitialized
          /\ registry_calls' = <<>>
          /\ calls' = <<>>
          /\ payload' = NoPayload]_vars

C1_Witness ==
    /\ ~ initialized
    /\ request.method = "tools/call"
    /\ "name" \notin DOMAIN request.params
    /\ "arguments" \in DOMAIN request.params
    /\ response.kind = "error"
    /\ response.details = SessionNotInitialized

\* C2: session state is per client: a client's tools/list and tools/call
\* fail with session-not-initialized until that client itself has called
\* initialize, whatever the other client has done.
C2_SessionPerClient ==
    (request.method \in {"tools/list", "tools/call"} /\ request.client \notin own_init)
        => (response.kind = "error" /\ response.details = SessionNotInitialized)

\* the request of the state ended in a protocol-level fault of the handler
MissingParameter ==
    \/ request.method = "initialize" /\ "protocolVersion" \notin DOMAIN request.params
    \/ request.method = "tools/call" /\ initialized
           /\ "name" \notin DOMAIN request.params

UnknownMethodFault ==
    request.method \notin {"none", "initialize", "initialized", "tools/list",
                           "tools/call", "ping", "logging/setLevel",
                           "notifications/initialized", "prompts/list"}

\* evaluated on a step: the session was not initialized when the request came
SessionFault == ~ initialized /\ request'.method \in {"tools/list", "tools/call"}

\* C19: every protocol-level fault yields an error envelope; a missing
\* required parameter yields code -32602, and a fault that is not an invalid
\* or missing parameter (unknown method, session not initialized, uncaught
\* internal fault) yields code -32603.
C19_ErrorCodes ==
    [][/\ (~ SessionFault /\ MissingParameter') =>
              (response'.kind = "error" /\ response'.code = 0 - 32602)
       /\ (SessionFault \/ UnknownMethodFault') =>
              (response'.kind = "error" /\ response'.code = 0 - 32603)]_vars

\* C20: with debug false no error envelope carries the text of the raised
\* exception in its details, whatever its code; the text appears only when
\* debug is true.
C20_DetailSuppression ==
    (response.kind = "error" /\ ~ debug) =>
        response.details \notin {SessionNotInitialized, MissingProtocolVersion,
                                 MissingName, UnknownTool, UnknownMethod,
                                 "unhashable type"}

\* C20 amended: an error envelope of code -32603 carries the text of the
\* raised exception in its details only when debug is true, and the generic
\* "Internal server error" when debug is false; an error envelope of code
\* -32602 carries the text of the raised ValueError whatever debug is.
C20_DetailSuppressionAmended ==
    response.kind = "error" =>
        /\ response.code = 0 - 32603 =>
               response.details =
                   IF debug THEN "unhashable type" ELSE "Internal server error"
        /\ response.code = 0 - 32602 =>
               response.details \in {SessionNotInitialized, MissingProtocolVersion,
                                     MissingName, UnknownTool, UnknownMethod}

C20_Witness ==
    /\ ~ debug
    /\ response.kind = "error"
    /\ response.code = 0 - 32603
    /\ response.details = "Internal server error"

\* C21: a request whose method is not exactly one of the eight known
\* methods fails with the unknown-method error in both session states: it
\* yields an error envelope, invokes no tool and leaves initialized and
\* clientInfo unchanged.
C21_UnknownMethod ==
    [][UnknownMethodFault' =>
          /\ response'.kind = "error"
          /\ response'.details = UnknownMethod
          /\ registry_calls' = <<>>
          /\ calls' = <<>>
          /\ payload' = NoPayload
          /\ initialized' = initialized
          /\ client_info' = client_info]_vars

C21_Witness ==
    /\ initialized
    /\ request.method = "Initialize"
    /\ response.kind = "error"
    /\ response.details = UnknownMethod
    /\ client_info \in {"info1", "info2"}

RegisteredNames ==
    <<"get_databases", "get_tables", "describe_table", "get_indexes",
      "get_table_stats", "get_database_size", "preview_table_data",
      "count_table_rows", "get_active_connections", "check_database_health",
      "execute_sql_query">>

\* C24: across any sequence of requests the registry holds exactly the 11
\* tools with the definitions it was built with, and every tools/list on an
\* initialized session returns all 11 in registration order.
C24_FixedCatalog ==
    /\ [i \in DOMAIN tools |-> tools[i].name] = RegisteredNames
    /\ \A i \in DOMAIN tools : tools[i].inputSchema = inputSchema[RegisteredNames[i]]
    /\ (request.method = "tools/list" /\ initialized) =>
           /\ response.kind = "success"
           /\ response.result.tools = tools
           /\ [i \in DOMAIN response.result.tools |-> response.result.tools[i].name]
                  = RegisteredNames

\* a tools/list answered after both clients have initialized
C24_Witness ==
    /\ own_init = Clients
    /\ request.method = "tools/list"
    /\ response.kind = "success"
    /\ Len(response.result.tools) = 11

\* the request is an initialize that carries protocolVersion
InitializeWithVersion(req) ==
    req.method = "initialize" /\ "protocolVersion" \in DOMAIN req.params

\* C25: every request other than an initialize that carries protocolVersion
\* leaves initialized and clientInfo unchanged, and once initialized is true
\* it stays true.
C25_SessionFrame ==
    [][/\ ~ InitializeWithVersion(request') =>
              (initialized' = initialized /\ client_info' = client_info)
       /\ initialized => initialized']_vars

C25_Witness ==
    /\ initialized
    /\ client_info = "info1"
    /\ request.method \in {"initialized", "notifications/initialized"}
    /\ response.kind = "success"

\* C26: an initialize with protocolVersion on an initialized session succeeds,
\* keeps initialized true, returns the same result as the first call and sets
\* clientInfo to that of this call (the empty mapping when it carries none),
\* also when its protocolVersion differs from the server's.
C26_RepeatedInitialize ==
    [][(initialized /\ InitializeWithVersion(request')) =>
          /\ response'.kind = "success"
          /\ response'.result =
                 [protocolVersion |-> "2024-11-05",
                  serverInfo |-> [name |-> "enhanced-postgresql-mcp", version |-> "2.0.0"],
                  capabilities |-> {"tools", "resources", "prompts", "logging"}]
          /\ initialized'
          /\ client_info' = IF "clientInfo" \in DOMAIN request'.params
                            THEN request'.params["clientInfo"] ELSE "{}"]_vars

\* both clients have initialized, the later one with another protocol version
\* and without clientInfo
C26_Witness ==
    /\ own_init = Clients
    /\ request.method = "initialize"
    /\ request.params = [protocolVersion |-> "2023-01-01"]
    /\ response.kind = "success"
    /\ initialized
    /\ client_info = "{}"

\* C27: an initialize without protocolVersion fails with a protocol error and
\* changes neither initialized nor clientInfo, in both session states, also
\* when it carries a clientInfo.
C27_FailedInitialize ==
    [][(request'.method = "initialize" /\ "protocolVersion" \notin DOMAIN request'.params) =>
          /\ response'.kind = "error"
          /\ response'.details = MissingProtocolVersion
          /\ initialized' = initialized
          /\ client_info' = client_info]_vars

C27_Witness ==
    /\ initialized
    /\ client_info = "info1"
    /\ request.method = "initialize"
    /\ request.params = [clientInfo |-> "info2"]
    /\ response.kind = "error"

\* C28: a tools/call on an initialized session whose name is not a key of
\* the registry yields an error envelope, not a tool-level error payload, and
\* no connection is acquired or query executed for it.
C28_UnknownTool ==
    (/\ initialized
     /\ request.method = "tools/call"
     /\ "name" \in DOMAIN request.params
     /\ \A i \in DOMAIN RegisteredNames : request.params["name"] # RegisteredNames[i]) =>
        /\ response.kind = "error"
        /\ payload = NoPayload
        /\ calls = <<>>

C28_Witness ==
    /\ initialized
    /\ request.method = "tools/call"
    /\ request.params = [name |-> "no_such_tool"]
    /\ response.kind = "error"
    /\ response.details = UnknownTool
    /\ calls = <<>>

-----------------------------------------------------------------------------
(* Specification of the Tool Registry & Executor: one tools/call on an
   initialized session, for every tool and a range of arguments *)

ArgValues ==
    [database |-> {StrV(<<>>), StrV(db), StrV(<<"d",";">>), StrV(<<"d","b","\n">>), IntV(7)},
     schema |-> {StrV(<<"s">>), StrV(<<"s"," ">>)},
     table |-> {StrV(<<"t">>), StrV(<<"t",";">>), StrV(<<>>)},
     limit |-> {IntV(0), IntV(3), IntV(999), IntV(0 - 2), StrV(<<"5">>)},
     query |-> {StrV(select_1), StrV(drop_table), IntV(1)},
     extra |-> {IntV(1)}]

\* the arguments sent to a tool: mappings over its declared properties and one
\* undeclared property, and a JSON value that is not an object
ToolArguments(tool) ==
    {Dict(m) : m \in Mappings(DOMAIN inputSchema[tool].properties \cup {"extra"}, ArgValues)}
        \cup {NotADict}

ToolCalls ==
    UNION {{[name |-> tool, arguments |-> a] : a \in ToolArguments(tool)} :
              tool \in Range(ToolNames)}

InitTool ==
    /\ initialized = TRUE
    /\ client_info = "{}"
    /\ own_init = {"A"}
    /\ debug = FALSE
    /\ request \in {[client |-> "A", method |-> "tools/call", params |-> p] : p \in ToolCalls}
    /\ response = NoResponse
    /\ payload = NoPayload
    /\ calls = <<>>
    /\ registry_calls = <<>>
    /\ identifier = <<>>
    /\ id_result = "unset"
    /\ RouterIdle
    /\ RegistryBuilt
    /\ FunctionsIdle

HandleToolsCall == \E outs \in Outs :
    /\ response = NoResponse
    /\ mcp_endpoint(request.client, request.method, request.params, outs)
    /\ UNCHANGED <<debug, identifier, id_result, tasks, pool, connections,
                 database_url, target_db_url, bytes_value, formatted>>

NextTool == HandleToolsCall

SpecTool == InitTool /\ [][NextTool]_vars

\* the tools/call of the state, once handled
Handled == response # NoResponse

ToolName == request.params["name"]

ToolArgs == request.params["arguments"]

IdentifierKeys == {"database", "schema", "table"}

\* the identifier arguments the call carries for its tool
IdentifierArgs ==
    IF ToolArgs.dict
    THEN IdentifierKeys \cap DOMAIN inputSchema[ToolName].properties \cap DOMAIN ToolArgs.m
    ELSE {}

\* an identifier argument of the call fails the Identifier Validator
IdentifierFault == \E k \in IdentifierArgs : ValidateValue(ToolArgs.m[k]) # "ok"

\* the call is an execute_sql_query whose statement the Statement Validator
\* rejects (the other arguments being well-formed)
StatementFault ==
    /\ ToolName = "execute_sql_query"
    /\ ToolArgs.dict
    /\ {"database", "query"} \subseteq DOMAIN ToolArgs.m
    /\ ValidateValue(ToolArgs.m["database"]) = "ok"
    /\ ToolArgs.m["query"].t = "str"
    /\ Get(ToolArgs, "limit", IntV(1)).t = "int"
    /\ \/ ~ StartsWith(Upper(Strip(ToolArgs.m["query"].s)), S_SELECT)
       \/ \E k \in 1..Len(dangerous_keywords) :
              Contains(Upper(ToolArgs.m["query"].s), dangerous_keywords[k])

\* a query of the call failed in the database
QueryFault == \E i \in 1..Len(calls) : calls[i].out = "fail"

\* C3: each tool-level fault (identifier argument failing validation,
\* statement rejected by the Statement Validator, query execution failure)
\* produces a payload with the fields error, tool (the tool's name) and
\* timestamp, for every tool.
C3_FaultPayload ==
    (Handled /\ (IdentifierFault \/ StatementFault \/ QueryFault)) =>
        /\ {"error", "tool", "timestamp"} \subseteq DOMAIN payload
        /\ payload["tool"] = ToolName

\* C4: a tools/call on an initialized session naming a registered tool always
\* yields a success envelope whose result holds exactly one content block of
\* type text, whatever the arguments and the outcome of the queries.
C4_SuccessEnvelope ==
    (Handled /\ ToolName \in Range(ToolNames)) =>
        /\ response.kind = "success"
        /\ Len(response.result.content) = 1
        /\ response.result.content[1].type = "text"
        /\ response.result.content[1].text = json_dumps(payload)

C4_Witness ==
    /\ Handled
    /\ ToolName = "describe_table"
    /\ ToolArgs.dict
    /\ "database" \notin DOMAIN ToolArgs.m
    /\ response.kind = "success"
    /\ Len(response.result.content) = 1

\* the arguments violate the tool's inputSchema: not an object, a required
\* property missing, an undeclared property present, or a value of the wrong
\* primitive type
SchemaViolation ==
    LET schema == inputSchema[ToolName]
    IN  \/ ~ ToolArgs.dict
        \/ ~ (schema.required \subseteq DOMAIN ToolArgs.m)
        \/ ~ (DOMAIN ToolArgs.m \subseteq DOMAIN schema.properties)
        \/ \E k \in DOMAIN ToolArgs.m \cap DOMAIN schema.properties :
               \/ schema.properties[k] = "string" /\ ToolArgs.m[k].t # "str"
               \/ schema.properties[k] = "integer" /\ ToolArgs.m[k].t # "int"

\* C5: a tools/call whose arguments violate the tool's inputSchema is rejected
\* before the handler runs: it returns an error and no router call is made.
C5_SchemaCheckBeforeDispatch ==
    (Handled /\ SchemaViolation) =>
        /\ calls = <<>>
        /\ (response.kind = "error" \/ "error" \in DOMAIN payload)

\* C7: every database, schema or table value used as the target of an
\* ephemeral connection or interpolated into SQL text has passed the
\* Identifier Validator, and if any identifier argument of the call fails
\* validation the Connection Router is not invoked by the call.
C7_ValidationPrecedesRouting ==
    Handled =>
        /\ \A i \in 1..Len(calls) :
               /\ calls[i].via = "ephemeral" => _validate_identifier(calls[i].target)
               /\ \A x \in calls[i].interp : _validate_identifier(x)
        /\ IdentifierFault => calls = <<>>

\* the handler of the call ran its queries and the database returned a row
\* set, possibly empty, for each of them
RowSetsReturned ==
    /\ Handled
    /\ ToolName \in Range(ToolNames)
    /\ calls # <<>>
    /\ \A i \in 1..Len(calls) : calls[i].out \in {"rows", "empty"}

\* C22: for each of the 11 tools and every row set the database returns,
\* the empty one included, the payload produced by the tool's handler
\* contains a timestamp field.
C22_TimestampPresent ==
    RowSetsReturned => (payload # NoPayload /\ "timestamp" \in DOMAIN payload)

-----------------------------------------------------------------------------
(* Specification of execute_sql_query: the handler applied to statements put
   together from pieces of text *)

SqlPieces ==
    {<<"S","E","L","E","C","T"," ","*"," ","F","R","O","M"," ">>,
     <<"s","e","l","e","c","t">>,
     <<" ">>,
     <<"1">>,
     <<";">>,
     <<" ","L","I","M","I","T"," ","5">>,
     <<"l","i","m","i","t">>,
     <<"d","e","l","e","t","e","_","l","o","g">>,
     <<"G","R","A","N","T">>,
     <<"U","P">>,
     <<"D","A","T","E">>}

RECURSIVE Concat(_)
Concat(ps) == IF ps = <<>> THEN <<>> ELSE Head(ps) \o Concat(Tail(ps))

SqlStatements == {Concat(ps) : ps \in UNION {[1..k -> SqlPieces] : k \in 0..MaxPieces}}

SqlLimits == {<<>>, [limit |-> IntV(7)], [limit |-> IntV(500)], [limit |-> IntV(0 - 3)]}

SqlArguments ==
    {Dict([database |-> StrV(db), query |-> StrV(q)] @@ l) :
        q \in SqlStatements, l \in SqlLimits}
    \cup {Dict([database |-> StrV(<<"d",";">>), query |-> StrV(q)]) :
             q \in {select_1, drop_table}}

InitSql ==
    /\ initialized = TRUE
    /\ client_info = "{}"
    /\ own_init = {"A"}
    /\ debug = FALSE
    /\ request \in {[client |-> "A", method |-> "tools/call",
                     params |-> [name |-> "execute_sql_query", arguments |-> a]] :
                       a \in SqlArguments}
    /\ response = NoResponse
    /\ payload = NoPayload
    /\ calls = <<>>
    /\ registry_calls = <<>>
    /\ identifier = <<>>
    /\ id_result = "unset"
    /\ RouterIdle
    /\ RegistryBuilt
    /\ FunctionsIdle

\* the handler step of the call: _execute_sql_query returns or raises
ExecuteSqlQuery == \E out \in Outcomes :
    \E r \in {_execute_sql_query(request.params["arguments"], <<out, out>>)} :
        /\ response = NoResponse
        /\ response' = [kind |-> "handler", exc |-> r.exc]
        /\ payload' = r.payload
        /\ calls' = r.calls
        /\ registry_calls' = <<"execute_tool">>
        /\ UNCHANGED <<initialized, client_info, own_init, request, debug,
                       identifier, id_result, tasks, pool, connections,
                   tools, database_url, target_db_url, bytes_value, formatted>>

NextSql == ExecuteSqlQuery

SpecSql == InitSql /\ [][NextSql]_vars

\* the query and database arguments of the call, and the limit it resolves to
QueryArg == ToolArgs.m["query"].s

DatabaseOk == ValidateValue(ToolArgs.m["database"]) = "ok"

ResolvedLimit ==
    IF "limit" \in DOMAIN ToolArgs.m
    THEN (IF ToolArgs.m["limit"].n < SqlMaxLimit THEN ToolArgs.m["limit"].n ELSE SqlMaxLimit)
    ELSE SqlDefaultLimit

\* the statement, trimmed, starts case-insensitively with SELECT
SelectPrefix(q) ==
    LET t == Strip(q)
    IN  Len(t) >= 6 /\ \A i \in 1..6 : UpperChar(t[i]) = S_SELECT[i]

\* the upper-cased text contains one of the seven denylisted words
Denylisted(text) ==
    \E k \in 1..Len(dangerous_keywords) : Contains(Upper(text), dangerous_keywords[k])

OnlySelect == "Only SELECT queries are allowed for safety reasons"

DangerousFound == "Query contains potentially dangerous keyword"

\* C8: execute_sql_query executes a statement only if, trimmed, it starts
\* case-insensitively with SELECT (a lower-case select passes the check); any
\* other statement is rejected by returning error data, not by raising, and
\* no router call is made for it.
C8_SelectPrefix ==
    Handled =>
        /\ calls # <<>> => SelectPrefix(QueryArg)
        /\ (DatabaseOk /\ ~ SelectPrefix(QueryArg)) =>
               /\ response.exc = "none"
               /\ "error" \in DOMAIN payload
               /\ payload["error"] = OnlySelect
        /\ (DatabaseOk /\ SelectPrefix(QueryArg)) =>
               ~ ("error" \in DOMAIN payload /\ payload["error"] = OnlySelect)

C8_Witness ==
    /\ Handled
    /\ DatabaseOk
    /\ Contains(Upper(QueryArg), S_SELECT)
    /\ ~ SelectPrefix(QueryArg)
    /\ response.exc = "none"
    /\ payload["error"] = OnlySelect
    /\ calls = <<>>

\* C9: no statement whose upper-cased text contains DROP, DELETE, UPDATE,
\* INSERT, ALTER, TRUNCATE or CREATE anywhere is sent to the database, and a
\* statement that starts with SELECT and contains none of them is not rejected
\* by the Statement Validator.
C9_Denylist ==
    Handled =>
        /\ \A i \in 1..Len(calls) : ~ Denylisted(calls[i].text)
        /\ Denylisted(QueryArg) => calls = <<>>
        /\ (DatabaseOk /\ SelectPrefix(QueryArg) /\ ~ Denylisted(QueryArg)) =>
               /\ Len(calls) = 1
               /\ ~ ("error" \in DOMAIN payload
                     /\ payload["error"] \in {OnlySelect, DangerousFound})

C9_Witness ==
    /\ Handled
    /\ DatabaseOk
    /\ SelectPrefix(QueryArg)
    /\ Contains(QueryArg, <<"d","e","l","e","t","e","_","l","o","g">>)
    /\ payload["error"] = DangerousFound
    /\ calls = <<>>

select_1_LIMIT_50 == <<"s","e","l","e","c","t"," ","1"," ","L","I","M","I","T"," ","5","0">>

\* C10 as stated: the executed statement is the trimmed statement followed by
\* " LIMIT <resolved limit>" when its upper-cased text has no LIMIT, and
\* exactly the trimmed statement when it has; rewriting the executed statement
\* again leaves it unchanged.
C10_LimitInjection ==
    (Handled /\ calls # <<>>) =>
        LET t == Strip(QueryArg)
            sent == calls[1].text
        IN  /\ ~ Contains(Upper(t), S_LIMIT) =>
                   sent = t \o <<" ">> \o S_LIMIT \o <<" ">> \o IntToStr(ResolvedLimit)
            /\ Contains(Upper(t), S_LIMIT) => sent = t
            /\ InjectLimit(Strip(sent), ResolvedLimit) = sent

\* C10 amended: without LIMIT in its upper-cased text, the executed statement
\* is the trimmed statement with its trailing semicolons removed, followed by
\* " LIMIT <resolved limit>" ("select 1" becomes "select 1 LIMIT 50"); with
\* LIMIT it is exactly the trimmed statement; rewriting the executed statement
\* again leaves it unchanged.
C10_LimitInjectionAmended ==
    (Handled /\ calls # <<>>) =>
        LET t == Strip(QueryArg)
            sent == calls[1].text
        IN  /\ ~ Contains(Upper(t), S_LIMIT) =>
                   sent = RStrip(t, {";"}) \o <<" ">> \o S_LIMIT \o <<" ">>
                              \o IntToStr(ResolvedLimit)
            /\ Contains(Upper(t), S_LIMIT) => sent = t
            /\ (t = select_1 /\ "limit" \notin DOMAIN ToolArgs.m) => sent = select_1_LIMIT_50
            /\ InjectLimit(Strip(sent), ResolvedLimit) = sent

C10_Witness ==
    /\ Handled
    /\ calls # <<>>
    /\ ~ Contains(Upper(QueryArg), S_LIMIT)
    /\ Len(Strip(QueryArg)) > 0
    /\ Strip(QueryArg)[Len(Strip(QueryArg))] = ";"
    /\ calls[1].text = RStrip(Strip(QueryArg), {";"}) \o <<" ">> \o S_LIMIT \o <<" ">>
                           \o IntToStr(ResolvedLimit)

S_GRANT == <<"G","R","A","N","T">>

\* the text ends in " LIMIT n" (in either case) with n the decimal form of a
\* number from 1 to 100
EndsInRowLimit(text) ==
    \E n \in 1..SqlMaxLimit :
        LET clause == <<" ">> \o S_LIMIT \o <<" ">> \o IntToStr(n)
        IN  /\ Len(text) >= Len(clause)
            /\ Upper(SubSeq(text, Len(text) - Len(clause) + 1, Len(text))) = clause

\* C11: every statement execute_sql_query sends to the Connection Router ends
\* in a LIMIT clause whose value is between 1 and 100, whatever the accepted
\* statement text and the limit argument are.
C11_RowLimit ==
    Handled => \A i \in 1..Len(calls) : EndsInRowLimit(calls[i].text)

\* a ';' of the text is followed by something other than blanks and ';'
FurtherCommand(text) ==
    \E i \in 1..Len(text) :
        /\ text[i] = ";"
        /\ \E j \in (i + 1)..Len(text) : text[j] \notin Whitespace \cup {";"}

\* C12: no statement that execute_sql_query sends to the database has a ';'
\* followed by a further command, nor a command word outside the denylist
\* such as GRANT; every executed text is a single SELECT.
C12_ReadOnly ==
    Handled =>
        \A i \in 1..Len(calls) :
            /\ SelectPrefix(calls[i].text)
            /\ ~ FurtherCommand(calls[i].text)
            /\ ~ Contains(Upper(calls[i].text), S_GRANT)

\* max(lo, min(n, hi))
Clamp(n, lo, hi) == IF n < lo THEN lo ELSE IF n > hi THEN hi ELSE n

\* C13: for every integer limit argument the value preview_table_data binds
\* to the LIMIT parameter and reports as limit_applied is
\* max(1, min(limit, 10)), and 5 when limit is absent.
C13_PreviewClamp ==
    (Handled /\ ToolName = "preview_table_data" /\ calls # <<>>) =>
        LET expected == IF Has(ToolArgs, "limit")
                        THEN Clamp(ToolArgs.m["limit"].n, 1, PreviewMaxLimit)
                        ELSE PreviewDefaultLimit
        IN  /\ calls[1].params = <<expected>>
            /\ "limit_applied" \in DOMAIN payload => payload["limit_applied"] = expected

\* C14: for every integer limit argument the limit execute_sql_query uses for
\* LIMIT injection is max(1, min(limit, 100)), and 50 when limit is absent.
C14_SqlClamp ==
    (Handled /\ ToolName = "execute_sql_query" /\ calls # <<>>
        /\ ~ Contains(Upper(QueryArg), S_LIMIT)) =>
        LET expected == IF Has(ToolArgs, "limit")
                        THEN Clamp(ToolArgs.m["limit"].n, 1, SqlMaxLimit)
                        ELSE SqlDefaultLimit
        IN  calls[1].text = RStrip(Strip(QueryArg), {";"}) \o <<" ">> \o S_LIMIT
                                \o <<" ">> \o IntToStr(expected)

\* C18: a call that carries a database argument (one the Identifier Validator
\* accepts, for the tools that take one) runs all its queries on
\* ephemeral connections to the named database and none on the default pool;
\* a call without a database argument runs all its queries on the default
\* pool.
C18_RoutingByTarget ==
    (Handled /\ ToolArgs.dict) =>
        /\ ("database" \in IdentifierArgs /\ ValidateValue(ToolArgs.m["database"]) = "ok") =>
               \A i \in 1..Len(calls) :
                   /\ calls[i].via = "ephemeral"
                   /\ calls[i].target = ToolArgs.m["database"].s
        /\ ~ Has(ToolArgs, "database") =>
               \A i \in 1..Len(calls) : calls[i].via = "pool"

-----------------------------------------------------------------------------
(* Specification of the Identifier Validator as a pure function *)

IdAlphabet == {"a", "Z", "7", "_", ";", " ", "-", "\n"}

SeqsUpTo(S, n) == UNION {[1..k -> S] : k \in 0..n}

\* lengths of the all-letter prefix, chosen around the 63-character limit
PadLens == {0} \cup ((MaxIdLen - 2)..(MaxIdLen + 1))

IdInputs == {Repeat("a", p) \o t : p \in PadLens, t \in SeqsUpTo(IdAlphabet, MaxSuffix)}

InitId ==
    /\ initialized = FALSE
    /\ client_info = "None"
    /\ own_init = {}
    /\ debug = FALSE
    /\ request = NoRequest
    /\ response = NoResponse
    /\ payload = NoPayload
    /\ calls = <<>>
    /\ registry_calls = <<>>
    /\ identifier \in IdInputs
    /\ id_result = "unset"
    /\ RouterIdle
    /\ RegistryBuilt
    /\ FunctionsIdle

ValidateIdentifier ==
    /\ id_result = "unset"
    /\ id_result' = IF _validate_identifier(identifier) THEN "accepted" ELSE "rejected"
    /\ UNCHANGED <<initialized, client_info, own_init, request, response,
                   payload, calls, registry_calls, debug, identifier, tasks, pool, connections,
                   tools, database_url, target_db_url, bytes_value, formatted>>

NextId == ValidateIdentifier

SpecId == InitId /\ [][NextId]_vars

\* the reference predicate ^[A-Za-z0-9_]{1,63}$ of the specification
ReferenceIdentifier(s) ==
    /\ Len(s) >= 1
    /\ Len(s) <= MaxIdLen
    /\ \A i \in 1..Len(s) : s[i] \in WordChars

\* C6: _validate_identifier accepts a string if and only if it has between
\* 1 and 63 characters, all of them in [A-Za-z0-9_]; a string ending with a
\* newline is rejected.
C6_IdentifierReference ==
    id_result # "unset" =>
        ((id_result = "accepted") <=> ReferenceIdentifier(identifier))

-----------------------------------------------------------------------------
(* Specification of the Connection Router under concurrency: each caller
   makes one call, execute_query on the default pool or
   execute_query_on_database on a named database, and the calls interleave
   at their await points *)

Databases == {<<"d","b">>, <<"d","b","2">>}

\* mutant of CanAcquire: acquisition never waits
CanAcquire_always(p) == TRUE

\* pool.acquire() hands out a connection while fewer than max_size are
\* checked out, and makes the caller wait otherwise
CanAcquire(p) == Cardinality(p.held) < max_connections

\* mutant of ConnectionFor: an open connection to the database is reused
ConnectionFor_cached(conns, database_name) ==
    LET same == {i \in 1..Len(conns) :
                    conns[i].open /\ conns[i].target = database_name}
    IN  IF same = {} THEN Len(conns) + 1 ELSE SetMin(same)

\* temp_conn = await asyncpg.connect(target_db_url): a connection of its own
ConnectionFor(conns, database_name) == Len(conns) + 1

\* mutant of AfterFetch: the connection is closed on the success path only
AfterFetch_success_only(out) == IF out = "fail" THEN "done" ELSE "close"

\* where execute_query_on_database goes when fetch has returned or raised:
\* the finally clause, with temp_conn set
AfterFetch(out) == "close"

InitConn ==
    /\ initialized = FALSE
    /\ client_info = "None"
    /\ own_init = {}
    /\ debug = FALSE
    /\ request = NoRequest
    /\ response = NoResponse
    /\ payload = NoPayload
    /\ calls = <<>>
    /\ registry_calls = <<>>
    /\ identifier = <<>>
    /\ id_result = "unset"
    /\ RouterIdle
    /\ RegistryBuilt
    /\ FunctionsIdle

session_vars == <<initialized, client_info, own_init, request, response, payload,
                  calls, registry_calls, debug, identifier, id_result,
                  tools, database_url, target_db_url, bytes_value, formatted>>

\* execute_query is called: the caller reaches pool.acquire()
CallDefault(t) ==
    /\ tasks[t].pc = "idle"
    /\ tasks' = [tasks EXCEPT ![t] =
                    [@ EXCEPT !.pc = "acquire", !.via = "pool",
                              !.waited = ~ CanAcquire(pool) \/ pool.waiters # <<>>]]
    /\ pool' = [pool EXCEPT !.waiters = Append(@, t)]
    /\ UNCHANGED <<connections, session_vars>>

\* the callers that may be handlers issuing two queries: as many as the pool
\* has connections
HandlerCallers == 1..max_connections

\* a handler that issues two queries on the default database, one after the
\* other, is called (_get_tables without database, _check_database_health):
\* its first execute_query reaches pool.acquire()
CallHandler(t) ==
    /\ tasks[t].pc = "idle"
    /\ t \in HandlerCallers
    /\ tasks' = [tasks EXCEPT ![t] =
                    [@ EXCEPT !.pc = "acquire", !.via = "pool", !.todo = 1,
                              !.waited = ~ CanAcquire(pool) \/ pool.waiters # <<>>]]
    /\ pool' = [pool EXCEPT !.waiters = Append(@, t)]
    /\ UNCHANGED <<connections, session_vars>>

\* connection = await self.pool.acquire(): served in arrival order
Acquire(t) ==
    /\ tasks[t].pc = "acquire"
    /\ pool.waiters # <<>>
    /\ Head(pool.waiters) = t
    /\ CanAcquire(pool)
    /\ pool' = [held |-> pool.held \cup {t}, waiters |-> Tail(pool.waiters)]
    /\ tasks' = [tasks EXCEPT ![t] = [@ EXCEPT !.pc = "fetch"]]
    /\ UNCHANGED <<connections, session_vars>>

\* rows = await conn.fetch(query) on the pool connection: returns or raises
PoolFetch(t) == \E out \in {"rows", "fail"} :
    /\ tasks[t].pc = "fetch"
    /\ tasks[t].via = "pool"
    /\ tasks' = [tasks EXCEPT ![t] = [@ EXCEPT !.pc = "release", !.out = out]]
    /\ UNCHANGED <<pool, connections, session_vars>>

\* mutant of ReleaseHeld: the connection is released on the success path only
ReleaseHeld_on_success(held, t, out) == IF out = "fail" THEN held ELSE held \ {t}

\* the finally clause of get_connection: the connection goes back to the pool
\* whether fetch returned or raised
ReleaseHeld(held, t, out) == held \ {t}

\* finally: await self.pool.release(connection); execute_query returns or
\* re-raises, and the handler goes on to its next query if it has one and
\* this one returned
Release(t) ==
    /\ tasks[t].pc = "release"
    /\ pool' = [pool EXCEPT !.held = ReleaseHeld(@, t, tasks[t].out)]
    /\ tasks' = [tasks EXCEPT ![t] =
                    IF tasks[t].out = "rows" /\ tasks[t].todo > 0
                    THEN [@ EXCEPT !.pc = "next", !.ran = @ + 1]
                    ELSE [@ EXCEPT !.pc = "done", !.ran = @ + 1,
                                   !.result = IF tasks[t].out = "fail"
                                              THEN "raised" ELSE "returned"]]
    /\ UNCHANGED <<connections, session_vars>>

\* the handler's next execute_query reaches pool.acquire()
NextQuery(t) ==
    /\ tasks[t].pc = "next"
    /\ tasks' = [tasks EXCEPT ![t] =
                    [@ EXCEPT !.pc = "acquire", !.todo = @ - 1, !.out = "none",
                              !.waited = @ \/ ~ CanAcquire(pool) \/ pool.waiters # <<>>]]
    /\ pool' = [pool EXCEPT !.waiters = Append(@, t)]
    /\ UNCHANGED <<connections, session_vars>>

\* execute_query_on_database is called: the caller reaches asyncpg.connect
CallNamed(t) == \E database_name \in Databases :
    /\ tasks[t].pc = "idle"
    /\ tasks' = [tasks EXCEPT ![t] = [@ EXCEPT !.pc = "connect", !.via = "ephemeral",
                                               !.target = database_name]]
    /\ UNCHANGED <<pool, connections, session_vars>>

\* temp_conn = await asyncpg.connect(target_db_url) returns a connection
Connect(t) ==
    /\ tasks[t].pc = "connect"
    /\ \E id \in {ConnectionFor(connections, tasks[t].target)} :
        /\ connections' =
               IF id = Len(connections) + 1
               THEN Append(connections, [target |-> tasks[t].target, owner |-> t,
                                         open |-> TRUE, users |-> {}, queries |-> 0])
               ELSE connections
        /\ tasks' = [tasks EXCEPT ![t] = [@ EXCEPT !.pc = "fetch", !.conn = id]]
    /\ UNCHANGED <<pool, session_vars>>

\* asyncpg.connect raises: temp_conn stays None, the finally clause closes
\* nothing and the exception goes to the caller
ConnectFails(t) ==
    /\ tasks[t].pc = "connect"
    /\ tasks' = [tasks EXCEPT ![t] = [@ EXCEPT !.pc = "done", !.out = "fail",
                                               !.result = "raised"]]
    /\ UNCHANGED <<pool, connections, session_vars>>

\* rows = await temp_conn.fetch(query): returns or raises
EphemeralFetch(t) == \E out \in {"rows", "fail"} :
    /\ tasks[t].pc = "fetch"
    /\ tasks[t].via = "ephemeral"
    /\ connections' = [connections EXCEPT ![tasks[t].conn] =
                          [@ EXCEPT !.users = @ \cup {t}, !.queries = @ + 1]]
    /\ tasks' = [tasks EXCEPT ![t] =
                    [@ EXCEPT !.pc = AfterFetch(out), !.out = out,
                              !.result = IF AfterFetch(out) = "done"
                                         THEN "raised" ELSE @]]
    /\ UNCHANGED <<pool, session_vars>>

\* finally: await temp_conn.close(); the call returns or re-raises
Close(t) ==
    /\ tasks[t].pc = "close"
    /\ connections' = [connections EXCEPT ![tasks[t].conn] = [@ EXCEPT !.open = FALSE]]
    /\ tasks' = [tasks EXCEPT ![t] =
                    [@ EXCEPT !.pc = "done",
                              !.result = IF tasks[t].out = "fail"
                                         THEN "raised" ELSE "returned"]]
    /\ UNCHANGED <<pool, session_vars>>

NextConn ==
    \E t \in Callers :
        \/ CallDefault(t)
        \/ Acquire(t)
        \/ PoolFetch(t)
        \/ Release(t)
        \/ CallNamed(t)
        \/ Connect(t)
        \/ ConnectFails(t)
        \/ EphemeralFetch(t)
        \/ Close(t)

SpecConn == InitConn /\ [][NextConn]_vars

\* the callers that all use the default pool
NextPool ==
    \E t \in Callers :
        \/ CallDefault(t)
        \/ Acquire(t)
        \/ PoolFetch(t)
        \/ Release(t)

\* the event loop resumes every coroutine whose await has completed, and
\* every query completes
FairSpecPool ==
    /\ InitConn
    /\ [][NextPool]_vars
    /\ \A t \in Callers :
           WF_vars(Acquire(t)) /\ WF_vars(PoolFetch(t)) /\ WF_vars(Release(t))

\* the callers that all use the default pool, for one query or as a handler
\* that issues two
NextHandlers ==
    \E t \in Callers :
        \/ CallDefault(t)
        \/ CallHandler(t)
        \/ Acquire(t)
        \/ PoolFetch(t)
        \/ Release(t)
        \/ NextQuery(t)

\* as FairSpecPool; a handler whose query has returned goes on
FairSpecHandlers ==
    /\ InitConn
    /\ [][NextHandlers]_vars
    /\ \A t \in Callers :
           /\ WF_vars(Acquire(t)) /\ WF_vars(PoolFetch(t))
           /\ WF_vars(Release(t)) /\ WF_vars(NextQuery(t))

\* the connections the call of t has opened
OpenedBy(t) == {i \in 1..Len(connections) : connections[i].owner = t}

Ephemeral(t) == tasks[t].via = "ephemeral"

\* the call of t has got past asyncpg.connect with a connection
Connected(t) == Ephemeral(t) /\ tasks[t].conn # 0

\* C15: every call of execute_query_on_database opens exactly one dedicated
\* connection, runs at most one query on it and closes it before the call
\* returns or raises, also when the query failed; no connection opened by one
\* call is used by another, and once all calls have completed no ephemeral
\* connection is open.
C15_EphemeralLifecycle ==
    /\ \A t \in Callers :
           /\ Connected(t) => OpenedBy(t) = {tasks[t].conn}
           /\ (Ephemeral(t) /\ ~ Connected(t)) => OpenedBy(t) = {}
           /\ tasks[t].pc = "done" => \A i \in OpenedBy(t) : ~ connections[i].open
    /\ \A i \in 1..Len(connections) :
           /\ connections[i].queries <= 1
           /\ connections[i].users \subseteq {connections[i].owner}
    /\ (\A t \in Callers : tasks[t].pc = "done") =>
           \A i \in 1..Len(connections) : ~ connections[i].open

C15_Witness ==
    \E t \in Callers :
        /\ Connected(t)
        /\ tasks[t].pc = "done"
        /\ tasks[t].result = "raised"
        /\ connections[tasks[t].conn].queries = 1
        /\ ~ connections[tasks[t].conn].open

C30_NoPoolLeak ==
    /\ [](\A t \in Callers :
             tasks[t].pc \in {"idle", "acquire", "next", "done"} => t \notin pool.held)
    /\ [](\A t \in Callers : t \in pool.held <=> tasks[t].pc \in {"fetch", "release"})
    /\ \A t \in Callers : (tasks[t].pc # "idle") ~> (tasks[t].pc = "done")
    /\ []((\A t \in Callers : tasks[t].pc \in {"idle", "done"}) =>
             (pool.held = {} /\ pool.waiters = <<>>))

\* all calls have finished, one of them a handler that ran both its queries
\* after waiting for a connection, another one on the query-failure path,
\* and no connection is checked out
C30_Witness ==
    /\ \A t \in Callers : tasks[t].pc = "done"
    /\ \E t \in Callers : tasks[t].ran = 2 /\ tasks[t].waited /\ tasks[t].result = "returned"
    /\ \E t \in Callers : tasks[t].result = "raised"
    /\ pool.held = {}

\* the query of t is in flight or its connection awaits closing
InFlight(t) == Ephemeral(t) /\ tasks[t].pc \in {"fetch", "close"}

\* C17: concurrent calls naming the same database each run their query on a
\* connection of their own, no connection is shared by two calls at any
\* time, and the number of simultaneously open ephemeral connections is not
\* bounded by this layer.
C17_IndependentConnections ==
    /\ \A t \in Callers :
           InFlight(t) =>
               /\ connections[tasks[t].conn].open
               /\ connections[tasks[t].conn].owner = t
               /\ connections[tasks[t].conn].target = tasks[t].target
    /\ \A t, u \in Callers :
           (t # u /\ Connected(t) /\ Connected(u)) => tasks[t].conn # tasks[u].conn
    /\ Cardinality({i \in 1..Len(connections) : connections[i].open})
           = Cardinality({t \in Callers : InFlight(t)})

\* every caller has a connection open to the same database at the same time
C17_Witness ==
    \E database_name \in Databases :
        /\ \A t \in Callers : InFlight(t) /\ tasks[t].target = database_name
        /\ Cardinality({i \in 1..Len(connections) :
                           connections[i].open /\ connections[i].target = database_name})
               = Cardinality(Callers)

-----------------------------------------------------------------------------
(* Byte formatter.  A byte count n is held as [m, e] with n = m * 1024^e, so
   that counts beyond 32 bits stay within TLC's integers.  m is below 2^21:
   float(n) is then exact, and so is every division by 1024. *)

units == <<<<"B">>, <<"K","B">>, <<"M","B">>, <<"G","B">>, <<"T","B">>>>

RECURSIVE Pow1024(_)
Pow1024(k) == IF k = 0 THEN 1 ELSE 1024 * Pow1024(k - 1)

\* size >= 1024, for size = m * 1024^x; with m below 2^21 it is false for
\* every x below -1
AtLeast1024(m, x) ==
    IF x >= 1 THEN m >= 1 ELSE x >= 0 - 1 /\ m >= Pow1024(1 - x)

\* the while loop of _format_bytes, from size = m * 1024^x: the exponent of
\* size and unit_index when it ends
RECURSIVE Scale(_, _, _)
Scale(m, x, unit_index) ==
    IF AtLeast1024(m, x) /\ unit_index < Len(units) - 1
    THEN Scale(m, x - 1, unit_index + 1)
    ELSE [x |-> x, unit_index |-> unit_index]

\* mutant of Hundredths: the digits after the second decimal are cut off
Hundredths_cut(m, x) ==
    IF x >= 0 THEN 100 * m * Pow1024(x) ELSE (100 * m) \div Pow1024(0 - x)

\* the number of hundredths ".2f" prints for m * 1024^x: the nearest one,
\* the even one of two equally near
Hundredths(m, x) ==
    IF x >= 0 THEN 100 * m * Pow1024(x)
    ELSE LET D == Pow1024(0 - x)
             q == (100 * m) \div D
             r == (100 * m) % D
         IN  IF 2 * r > D \/ (2 * r = D /\ q % 2 = 1) THEN q + 1 ELSE q

\* h hundredths written with two decimals
Fixed2(h) ==
    NatToStr(h \div 100) \o <<".", DigitSeq[((h % 100) \div 10) + 1], DigitSeq[(h % 10) + 1]>>

_format_bytes(b) ==
    IF b.m = 0 THEN <<"0", " ", "B">>
    ELSE LET st == Scale(b.m, b.e, 0)
         IN  Fixed2(Hundredths(b.m, st.x)) \o <<" ">> \o units[st.unit_index + 1]

-----------------------------------------------------------------------------
(* Specification of the byte formatter as a pure function *)

Mantissas ==
    {0, 1, 2, 512, 1000, 1023, 1024, 1029, 1034, 1152, 1536, 2047, 5125, 10240,
     102400, 1043333, 1048570, 1048571, 1048575, 1048576, 1048577, 2097151}

ByteCounts == [m : Mantissas, e : 0..(Len(units) - 1)]

InitBytes ==
    /\ initialized = FALSE
    /\ client_info = "None"
    /\ own_init = {}
    /\ debug = FALSE
    /\ request = NoRequest
    /\ response = NoResponse
    /\ payload = NoPayload
    /\ calls = <<>>
    /\ registry_calls = <<>>
    /\ identifier = <<>>
    /\ id_result = "unset"
    /\ RouterIdle
    /\ RegistryBuilt
    /\ database_url = default_database_url
    /\ target_db_url = <<>>
    /\ bytes_value \in ByteCounts
    /\ formatted = <<>>

FormatBytes ==
    /\ formatted = <<>>
    /\ formatted' = _format_bytes(bytes_value)
    /\ UNCHANGED <<initialized, client_info, own_init, request, response,
                   payload, calls, registry_calls, debug, identifier, id_result,
                   tasks, pool, connections, tools, database_url, target_db_url,
                   bytes_value>>

NextBytes == FormatBytes

SpecBytes == InitBytes /\ [][NextBytes]_vars

\* the largest k with 1024^k <= m, for m in 1 .. 2^21 - 1
Log1024(m) == IF m >= 1024 * 1024 THEN 2 ELSE IF m >= 1024 THEN 1 ELSE 0

\* the index of the unit of n = m * 1024^e: min(4, k), k the largest integer
\* with 1024^k <= n
UnitIndex(b) == IF b.e + Log1024(b.m) < 4 THEN b.e + Log1024(b.m) ELSE 4

\* text is n / 1024^index with two decimals, followed by the unit at index
ShowsQuotient(b, text) ==
    LET x == b.e - UnitIndex(b)
        D == Pow1024(0 - x)
    IN  IF x >= 0
        THEN text = Fixed2(100 * b.m * Pow1024(x)) \o <<" ">> \o units[UnitIndex(b) + 1]
        ELSE \E h \in {(100 * b.m) \div D, ((100 * b.m) \div D) + 1} :
                /\ 2 * (h * D - 100 * b.m) <= D
                /\ 2 * (100 * b.m - h * D) <= D
                /\ text = Fixed2(h) \o <<" ">> \o units[UnitIndex(b) + 1]

\* the number in front of the unit is below 1024
ShownBelow1024(text) ==
    \E h \in 0..102399 : \E u \in Range(units) : text = Fixed2(h) \o <<" ">> \o u

\* the examples of the formatter: 0, 1536 and 1073741824 bytes
FormatExamples ==
    /\ bytes_value.m = 0 => formatted = <<"0", " ", "B">>
    /\ bytes_value = [m |-> 1536, e |-> 0] =>
           formatted = <<"1", ".", "5", "0", " ", "K", "B">>
    /\ bytes_value \in {[m |-> 1, e |-> 3], [m |-> 1024, e |-> 2], [m |-> 1048576, e |-> 1]} =>
           formatted = <<"1", ".", "0", "0", " ", "G", "B">>

-----------------------------------------------------------------------------
(* Specification of the connection target derivation: the default URL is any
   of a set of URLs scheme://credentials@host:port/dbname, with or without
   options, and the database name any of a set of valid names *)

UrlOf(u) ==
    u.scheme \o <<":", "/", "/">> \o u.credentials \o <<"@">> \o u.hostport
        \o <<"/">> \o u.dbname \o u.options

UrlParts ==
    [scheme : {<<"p","g">>, <<"p","q","l">>},
     credentials : {<<"u",":","w">>, <<"a","d",":","x","_","1">>},
     hostport : {<<"h",":","5">>, <<"d","b",".","i","o",":","6","4">>},
     dbname : {<<"d","b">>, <<"p">>},
     options : {<<>>, <<"?","s","=","1">>, <<"?","c","=","/","x">>}]

TargetNames == {<<"d","b">>, <<"s","a","l","e","s","_","1">>}

InitUrl ==
    /\ initialized = FALSE
    /\ client_info = "None"
    /\ own_init = {}
    /\ debug = FALSE
    /\ request = NoRequest
    /\ response = NoResponse
    /\ payload = NoPayload
    /\ calls = <<>>
    /\ registry_calls = <<>>
    /\ identifier \in TargetNames
    /\ id_result = "unset"
    /\ RouterIdle
    /\ RegistryBuilt
    /\ database_url \in {UrlOf(u) : u \in UrlParts}
    /\ target_db_url = <<>>
    /\ bytes_value = NoBytes
    /\ formatted = <<>>

DeriveTarget ==
    /\ target_db_url = <<>>
    /\ _validate_identifier(identifier)
    /\ target_db_url' = derive_target_db_url(database_url, identifier)
    /\ UNCHANGED <<initialized, client_info, own_init, request, response,
                   payload, calls, registry_calls, debug, identifier, id_result,
                   tasks, pool, connections, tools, database_url, bytes_value,
                   formatted>>

NextUrl == DeriveTarget

SpecUrl == InitUrl /\ [][NextUrl]_vars

\* C29: for every default URL scheme://credentials@host:port/dbname, with or
\* without a trailing query string of options, and every valid database name
\* d, the URL of the ephemeral connection is the default URL with only its
\* database segment replaced by d: scheme, credentials, host, port and
\* options are preserved.
C29_TargetDerivation ==
    target_db_url # <<>> =>
        \A u \in UrlParts :
            database_url = UrlOf(u) =>
                target_db_url = UrlOf([u EXCEPT !.dbname = identifier])

=============================================================================
